---- MODULE Spec2Model ----
(***************************************************************************)
(* libtvdb.TVDBClient: the authentication / request / conversion pipeline  *)
(* of src/libtvdb/__init__.py as a state machine.                          *)
(*                                                                         *)
(* The client is single-threaded and every network call blocks, so one     *)
(* public operation runs at a time.  A public operation is entered by its  *)
(* own action (authenticate, get, search_show, ...) and then advances one  *)
(* network exchange per step (requests_post, requests_get): pc is the      *)
(* position inside the running operation, and the remote service answers   *)
(* each exchange with any outcome of a bounded set.                        *)
(***************************************************************************)
EXTENDS Integers, Sequences, FiniteSets, TLC

VARIABLES
    api_key,        \* self.api_key
    user_key,       \* self.user_key
    user_name,      \* self.user_name
    auth_token,     \* self.auth_token : None or the stored token
    pc,             \* "idle" | "login" (in the retry loop) | "get" (at requests.get)
    call,           \* the running (or last) public operation and its arguments
    i,              \* the retry loop's index in authenticate()
    sent,           \* the network exchanges of the running (or last) operation
    result,         \* what the running (or last) operation gave its caller
    entry_token,    \* history: auth_token when the operation was entered
    prev_login_failed, \* history: the operation before this one died in its login
    prev_get_failed \* history: the operation before this one died at or after its GET

vars == <<api_key, user_key, user_name, auth_token, pc, call, i, sent, result,
          entry_token, prev_login_failed, prev_get_failed>>

(***************************************************************************)
(* Python values.  None is the empty tuple; every other value is a tagged  *)
(* pair, so that None, "" and [] stay three different values.  A str is a  *)
(* sequence of non-empty pieces, so that f-strings and quote() can build   *)
(* it piece by piece.                                                      *)
(***************************************************************************)
None == <<>>

Str(s) == <<"str", <<s>>>>

EmptyStr == <<"str", <<>>>>

\* f"{a}{b}"
Cat(a, b) == <<"str", a[2] \o b[2]>>

\* f"{n}" of an int
IntStr(n) == <<"str", <<ToString(n)>>>>

List(items) == <<"list", items>>

Dict(fields) == <<"dict", fields>>

\* dict.get(key): the value, or None when the key is absent (a JSON null is
\* already None)
dict_get(d, key) == IF key \in DOMAIN d[2] THEN d[2][key] ELSE None

\* What response.json() gives for a body that is not JSON
NoJson == <<"nojson">>

(***************************************************************************)
(* Program constants                                                       *)
(***************************************************************************)
AUTH_TIMEOUT == 3

MAX_AUTH_RETRY_COUNT == 3

BASE_API == Str("https://api.thetvdb.com")

DEFAULT_TIMEOUT == 10

(***************************************************************************)
(* Bounds                                                                  *)
(***************************************************************************)
\* longest data array the service returns
MaxItems == 2

\* longest show name searched for, in characters
MaxNameLen == 2

(***************************************************************************)
(* What an operation gives its caller                                      *)
(***************************************************************************)
NoCall == [kind |-> "none", type |-> "", value |-> None]

Running == [kind |-> "running", type |-> "", value |-> None]

\* return v
Return(v) == [kind |-> "return", type |-> "", value |-> v]

\* raise type(msg)
Raise(type, msg) == [kind |-> "raise", type |-> type, value |-> msg]

(***************************************************************************)
(* The remote service.  A response body is its raw text together with what *)
(* response.json() makes of it; the text of a JSON body is its dump.       *)
(***************************************************************************)
PyInt(n) == <<"int", n>>

KeyOrder == <<"id", "name", "token", "data", "Error", "message">>

RECURSIVE dump(_)
RECURSIVE dump_items(_)
RECURSIVE dump_fields(_, _, _)
\* the JSON text of a parsed value
dump(v) ==
    IF v = None THEN Str("null")
    ELSE IF v[1] = "str" THEN Cat(Str("\""), Cat(v, Str("\"")))
    ELSE IF v[1] = "int" THEN IntStr(v[2])
    ELSE IF v[1] = "list" THEN Cat(Str("["), Cat(dump_items(v[2]), Str("]")))
    ELSE Cat(Str("{"), Cat(dump_fields(v[2], 1, TRUE), Str("}")))

dump_items(items) ==
    IF items = <<>> THEN EmptyStr
    ELSE IF Len(items) = 1 THEN dump(Head(items))
    ELSE Cat(dump(Head(items)), Cat(Str(", "), dump_items(Tail(items))))

dump_fields(fields, k, first) ==
    IF k > Len(KeyOrder) THEN EmptyStr
    ELSE IF KeyOrder[k] \notin DOMAIN fields THEN dump_fields(fields, k + 1, first)
    ELSE Cat(IF first THEN EmptyStr ELSE Str(", "),
             Cat(Str("\"" \o KeyOrder[k] \o "\": "),
                 Cat(dump(fields[KeyOrder[k]]), dump_fields(fields, k + 1, FALSE))))

JsonBody(parsed) == [text |-> dump(parsed), parsed |-> parsed]

TextBody(text) == [text |-> Str(text), parsed |-> NoJson]

StatusCodes == {199, 200, 299, 300, 404}

Response(status, body) ==
    [kind |-> "Response", status_code |-> status, text |-> body.text, parsed |-> body.parsed]

\* requests.exceptions.Timeout
Timeout == [kind |-> "Timeout", status_code |-> 0, text |-> EmptyStr, parsed |-> NoJson]

\* requests.exceptions.ConnectionError
ConnectionError ==
    [kind |-> "ConnectionError", status_code |-> 0, text |-> EmptyStr, parsed |-> NoJson]

Tokens == {Str("abc123"), Str("xyz789")}

LoginBodies ==
    {JsonBody(Dict([token |-> t])) : t \in Tokens}
    \cup {JsonBody(Dict([token |-> None])),
          JsonBody(Dict([Error |-> Str("Not authorized")])),
          TextBody("<html>Bad Gateway</html>")}

LoginOutcomes ==
    {Timeout, ConnectionError}
    \cup {Response(s, b) : s \in StatusCodes, b \in LoginBodies}

\* the JSON objects the service lists: shows and actors
Items ==
    {Dict([id |-> PyInt(1), name |-> Str("A")]),
     Dict([id |-> PyInt(2)])}

SeqsUpTo(S, n) == UNION {[1..k -> S] : k \in 0..n}

ItemLists == {List(s) : s \in SeqsUpTo(Items, MaxItems)}

ErrorBodies ==
    {JsonBody(Dict([Error |-> Str("Resource not found")])),
     JsonBody(Dict([Error |-> Str("Not authorized")])),
     JsonBody(Dict([message |-> Str("ok")])),
     JsonBody(Dict([data |-> None])),
     TextBody("<html>Bad Gateway</html>")}

\* the data payloads an endpoint answers with
DataFor(op) ==
    IF op = "get" THEN ItemLists \cup Items \cup {Str("v1")}
    ELSE IF op = "show_info" THEN Items
    ELSE ItemLists

GetBodies(op) == {JsonBody(Dict([data |-> d])) : d \in DataFor(op)} \cup ErrorBodies

GetOutcomes(op) ==
    {Timeout, ConnectionError}
    \cup {Response(s, b) : s \in StatusCodes, b \in GetBodies(op)}

(***************************************************************************)
(* Requests                                                                *)
(***************************************************************************)
\* TVDBClient._expand_url
expand_url(path) == Cat(BASE_API, Cat(Str("/"), path))

\* (variant: the token is never attached)
construct_headers_no_auth(token) == [Accept |-> Str("application/json")]

\* TVDBClient._construct_headers; the client never passes additional_headers
construct_headers(token) ==
    IF token # None
    THEN [Accept |-> Str("application/json"), Authorization |-> Cat(Str("Bearer "), token)]
    ELSE [Accept |-> Str("application/json")]

login_body(ak, uk, un) == Dict([apikey |-> ak, userkey |-> uk, username |-> un])

\* the requests.post(...) of authenticate()
login_request(ak, uk, un, token) ==
    [method |-> "POST", url |-> expand_url(Str("login")), json |-> login_body(ak, uk, un),
     headers |-> construct_headers(token), timeout |-> AUTH_TIMEOUT]

\* the requests.get(...) of get()
get_request(url_path, token, timeout) ==
    [method |-> "GET", url |-> expand_url(url_path), json |-> None,
     headers |-> construct_headers(token), timeout |-> timeout]

Exchange(request, outcome) == [request |-> request, outcome |-> outcome]

(***************************************************************************)
(* authenticate()                                                          *)
(***************************************************************************)
\* (variant: the early return is missing)
already_authenticated_never(token) == FALSE

\* if self.auth_token is not None: return
already_authenticated(token) == token # None

\* (variant: the last attempt is taken for one that can be retried)
will_retry_always(k) == k < MAX_AUTH_RETRY_COUNT

\* (variant: the last retry is given up one attempt early)
will_retry_early(k) == k < MAX_AUTH_RETRY_COUNT - 2

\* will_retry = i < (MAX_AUTH_RETRY_COUNT - 1)
will_retry(k) == k < MAX_AUTH_RETRY_COUNT - 1

\* (variant: 300 passes the status check)
auth_status_failed_gt(status_code) == status_code < 200 \/ status_code > 300

\* if response.status_code < 200 or response.status_code >= 300
auth_status_failed(status_code) == status_code < 200 \/ status_code >= 300

\* (variant: the token is stored unchecked)
token_missing_unchecked(token) == FALSE

\* if token is None
token_missing(token) == token = None

\* (variant: the token is stored before the status is checked)
authenticate_finish_store_first(token_now, response) ==
    LET token == IF response.parsed = NoJson THEN None ELSE dict_get(response.parsed, "token")
        stored == IF token = None THEN token_now ELSE token
    IN  IF response.status_code < 200 \/ response.status_code >= 300
        THEN [auth_token |-> stored,
              outcome |-> Raise("TVDBAuthenticationException",
                                Cat(Str("Authentication failed with status code: "),
                                    IntStr(response.status_code)))]
        ELSE IF response.parsed = NoJson
        THEN [auth_token |-> stored, outcome |-> Raise("JSONDecodeError", response.text)]
        ELSE IF token = None
        THEN [auth_token |-> stored,
              outcome |-> Raise("TVDBAuthenticationException",
                                Str("Failed to get token from login request"))]
        ELSE [auth_token |-> stored, outcome |-> Return(None)]

\* The statements after the retry loop, with response bound: the status check,
\* the token's extraction and its storing.
authenticate_finish(token_now, response) ==
    IF auth_status_failed(response.status_code)
    THEN [auth_token |-> token_now,
          outcome |-> Raise("TVDBAuthenticationException",
                            Cat(Str("Authentication failed with status code: "),
                                IntStr(response.status_code)))]
    ELSE IF response.parsed = NoJson
    THEN [auth_token |-> token_now, outcome |-> Raise("JSONDecodeError", response.text)]
    ELSE LET token == dict_get(response.parsed, "token")
         IN  IF token_missing(token)
             THEN [auth_token |-> token_now,
                   outcome |-> Raise("TVDBAuthenticationException",
                                     Str("Failed to get token from login request"))]
             ELSE [auth_token |-> token, outcome |-> Return(None)]

\* (variant: a rejected login is tried again)
authenticate_attempt_retry_rejected(k, token_now, o) ==
    IF o.kind = "Response"
    THEN IF auth_status_failed(o.status_code) /\ k + 1 < MAX_AUTH_RETRY_COUNT
         THEN [i |-> k + 1, auth_token |-> token_now, outcome |-> Running]
         ELSE [i |-> k] @@ authenticate_finish(token_now, o)
    ELSE IF o.kind = "Timeout"
    THEN IF will_retry(k)
         THEN [i |-> k + 1, auth_token |-> token_now, outcome |-> Running]
         ELSE [i |-> k, auth_token |-> token_now,
               outcome |-> Raise("Exception",
                                 Str("Authentication timed out maximum number of times."))]
    ELSE [i |-> k, auth_token |-> token_now, outcome |-> Raise(o.kind, EmptyStr)]

\* One pass of the retry loop, iteration k, whose requests.post ended as o.
\* outcome is Running while the loop goes on.  A loop that ran out of
\* iterations without a response reaches the status check with response
\* unbound.
authenticate_attempt(k, token_now, o) ==
    IF o.kind = "Response"
    THEN [i |-> k] @@ authenticate_finish(token_now, o)
    ELSE IF o.kind = "Timeout"
    THEN IF will_retry(k)
         THEN IF k + 1 < MAX_AUTH_RETRY_COUNT
              THEN [i |-> k + 1, auth_token |-> token_now, outcome |-> Running]
              ELSE [i |-> k + 1, auth_token |-> token_now,
                    outcome |-> Raise("UnboundLocalError", Str("response"))]
         ELSE [i |-> k, auth_token |-> token_now,
               outcome |-> Raise("Exception",
                                 Str("Authentication timed out maximum number of times."))]
    ELSE [i |-> k, auth_token |-> token_now, outcome |-> Raise(o.kind, EmptyStr)]

(***************************************************************************)
(* get()                                                                   *)
(***************************************************************************)
\* (variant: only None is rejected)
invalid_path_none_only(url_path) == url_path = None

\* if url_path is None or url_path == ""
invalid_path(url_path) == url_path = None \/ url_path = EmptyStr

\* (variant: 200 fails the status check)
get_status_failed_le(status_code) == status_code <= 200 \/ status_code >= 300

\* if response.status_code < 200 or response.status_code >= 300
get_status_failed(status_code) == status_code < 200 \/ status_code >= 300

\* (variant: another literal is compared)
is_not_found_other(error) == error = Str("Not found")

\* if error == "Resource not found"
is_not_found(error) == error = Str("Resource not found")

\* The classification of a response: the error branch, then the data branch.
classify(url_path, response) ==
    IF get_status_failed(response.status_code)
    THEN IF response.parsed = NoJson
         THEN Raise("TVDBException",
                    Cat(Str("Could not decode error response: "), response.text))
         ELSE LET error == dict_get(response.parsed, "Error")
              IN  IF error = None
                  THEN Raise("TVDBException",
                             Cat(Str("Could not get error information: "), response.text))
                  ELSE IF is_not_found(error)
                  THEN Raise("NotFoundException",
                             Cat(Str("Could not find resource for path: "), url_path))
                  ELSE Raise("TVDBException", Cat(Str("Unknown error: "), response.text))
    ELSE IF response.parsed = NoJson
    THEN Raise("JSONDecodeError", response.text)
    ELSE LET data == dict_get(response.parsed, "data")
         IN  IF data = None
             THEN Raise("NotFoundException",
                        Cat(Str("Could not get data for path: "), url_path))
             ELSE Return(data)

\* What get() gives once requests.get ended as o
get_result(url_path, o) ==
    IF o.kind = "Response" THEN classify(url_path, o) ELSE Raise(o.kind, EmptyStr)

(***************************************************************************)
(* The domain model's constructors (libtvdb.model.show, libtvdb.model.actor *)
(* and deserialize)                                                        *)
(***************************************************************************)
\* Show.from_json: tolerant, a missing optional field is absent
Show_from_json(show_data) ==
    <<"Show", [identifier |-> dict_get(show_data, "id"), name |-> dict_get(show_data, "name")]>>

\* deserialize.deserialize(Actor, item): strict, a missing field fails
deserialize_Actor(item) ==
    IF dict_get(item, "id") = None \/ dict_get(item, "name") = None
    THEN Raise("DeserializeException", Str("Unexpected missing value"))
    ELSE Return(<<"Actor", [identifier |-> dict_get(item, "id"), name |-> dict_get(item, "name")]>>)

(***************************************************************************)
(* search_show(), show_info(), actors_from_show_id(), actors_from_show()   *)
(***************************************************************************)
NameChars == {"a", " "}

\* the characters urllib.parse.quote leaves alone: letters, digits, "_.-~" and
\* its default safe="/"
SafeChars == {"a", "/"}

PercentCode(c) == IF c = " " THEN "%20" ELSE "%" \o c

RECURSIVE quote_pieces(_)
quote_pieces(pieces) ==
    IF pieces = <<>> THEN <<>>
    ELSE <<IF Head(pieces) \in SafeChars THEN Head(pieces) ELSE PercentCode(Head(pieces))>>
         \o quote_pieces(Tail(pieces))

\* urllib.parse.quote(show_name)
quote(name) == <<"str", quote_pieces(name[2])>>

\* (variant: only None short-circuits)
blank_name_none_only(show_name) == show_name = None

\* if show_name is None or show_name == ""
blank_name(show_name) == show_name = None \/ show_name = EmptyStr

search_path(show_name) == Cat(Str("search/series?name="), quote(show_name))

show_path(show_identifier) == Cat(Str("series/"), IntStr(show_identifier[2]))

actors_path(show_identifier) ==
    Cat(Str("series/"), Cat(IntStr(show_identifier[2]), Str("/actors")))

RECURSIVE shows_of_reversed(_)
\* (variant: each show is put at the front of the list)
shows_of_reversed(shows_data) ==
    IF shows_data = <<>> THEN <<>>
    ELSE shows_of_reversed(Tail(shows_data)) \o <<Show_from_json(Head(shows_data))>>

RECURSIVE shows_of(_)
\* for show_data in shows_data: shows.append(Show.from_json(show_data))
shows_of(shows_data) ==
    IF shows_data = <<>> THEN <<>>
    ELSE <<Show_from_json(Head(shows_data))>> \o shows_of(Tail(shows_data))

RECURSIVE actors_of_tolerant(_, _)
\* (variant: an item that fails to convert is skipped)
actors_of_tolerant(actor_data, actors) ==
    IF actor_data = <<>> THEN Return(List(actors))
    ELSE LET one == deserialize_Actor(Head(actor_data))
         IN  IF one.kind = "raise" THEN actors_of_tolerant(Tail(actor_data), actors)
             ELSE actors_of_tolerant(Tail(actor_data), Append(actors, one.value))

RECURSIVE actors_of(_, _)
\* for actor_data_item in actor_data: actors.append(deserialize(...)); the
\* first failing item ends the call
actors_of(actor_data, actors) ==
    IF actor_data = <<>> THEN Return(List(actors))
    ELSE LET one == deserialize_Actor(Head(actor_data))
         IN  IF one.kind = "raise" THEN one
             ELSE actors_of(Tail(actor_data), Append(actors, one.value))

\* What the operation does with what get() gave it
finish(op, got) ==
    IF got.kind = "raise" \/ op = "get" THEN got
    ELSE IF op = "search_show" THEN Return(List(shows_of(got.value[2])))
    ELSE IF op = "show_info" THEN Return(Show_from_json(got.value))
    ELSE actors_of(got.value[2], <<>>)

(***************************************************************************)
(* The callers' arguments                                                  *)
(***************************************************************************)
UrlPaths == {None, EmptyStr, Str("series/1")}

CallerTimeouts == {5, DEFAULT_TIMEOUT}

ShowNames == {None} \cup {<<"str", s>> : s \in SeqsUpTo(NameChars, MaxNameLen)}

ShowIds == {PyInt(1), PyInt(2)}

Shows == {Show_from_json(it) : it \in Items}

(***************************************************************************)
(* The state machine                                                       *)
(***************************************************************************)
Init ==
    /\ api_key = Str("api-key")
    /\ user_key = Str("user-key")
    /\ user_name = Str("user-name")
    /\ auth_token = None
    /\ pc = "idle"
    /\ call = [op |-> "none", arg |-> None, url_path |-> None, timeout |-> 0]
    /\ i = 0
    /\ sent = <<>>
    /\ result = NoCall
    /\ entry_token = None
    /\ prev_login_failed = FALSE
    /\ prev_get_failed = FALSE

\* the last operation raised out of its login
login_failed(res, exchanges) ==
    /\ res.kind = "raise"
    /\ exchanges # <<>>
    /\ exchanges[Len(exchanges)].request.method = "POST"

\* the last operation raised at or after its GET
get_failed(res, exchanges) ==
    /\ res.kind = "raise"
    /\ exchanges # <<>>
    /\ exchanges[Len(exchanges)].request.method = "GET"

\* A caller enters a public operation: a new frame
Enter(op, arg, url_path, timeout) ==
    /\ pc = "idle"
    /\ call' = [op |-> op, arg |-> arg, url_path |-> url_path, timeout |-> timeout]
    /\ sent' = <<>>
    /\ i' = 0
    /\ entry_token' = auth_token
    /\ prev_login_failed' = login_failed(result, sent)
    /\ prev_get_failed' = get_failed(result, sent)
    /\ UNCHANGED <<api_key, user_key, user_name, auth_token>>

\* authenticate(), up to its first requests.post
authenticate ==
    /\ Enter("authenticate", None, None, AUTH_TIMEOUT)
    /\ IF already_authenticated(auth_token)
       THEN pc' = "idle" /\ result' = Return(None)
       ELSE pc' = "login" /\ result' = Running

\* (variant: get() logs in whether or not a token is held)
get_begin_relogin(url_path) ==
    IF invalid_path(url_path)
    THEN pc' = "idle" /\ result' = Raise("AttributeError", Str("An invalid URL path was supplied"))
    ELSE pc' = "login" /\ result' = Running

\* get(url_path, timeout), up to its first network request
get_begin(url_path) ==
    IF invalid_path(url_path)
    THEN pc' = "idle" /\ result' = Raise("AttributeError", Str("An invalid URL path was supplied"))
    ELSE IF already_authenticated(auth_token)
    THEN pc' = "get" /\ result' = Running
    ELSE pc' = "login" /\ result' = Running

get ==
    \E url_path \in UrlPaths, timeout \in CallerTimeouts :
        /\ Enter("get", url_path, url_path, timeout)
        /\ get_begin(url_path)

search_show ==
    \E show_name \in ShowNames :
        IF blank_name(show_name)
        THEN /\ Enter("search_show", show_name, None, DEFAULT_TIMEOUT)
             /\ pc' = "idle"
             /\ result' = Return(List(<<>>))
        ELSE /\ Enter("search_show", show_name, search_path(show_name), DEFAULT_TIMEOUT)
             /\ get_begin(search_path(show_name))

show_info ==
    \E show_identifier \in ShowIds :
        /\ Enter("show_info", show_identifier, show_path(show_identifier), DEFAULT_TIMEOUT)
        /\ get_begin(show_path(show_identifier))

actors_from_show_id ==
    \E show_identifier \in ShowIds, timeout \in CallerTimeouts :
        /\ Enter("actors_from_show_id",
                 [show_identifier |-> show_identifier, timeout |-> timeout],
                 actors_path(show_identifier), timeout)
        /\ get_begin(actors_path(show_identifier))

\* (variant: the caller's timeout is not passed on)
actors_from_show_default_timeout ==
    \E show \in {sh \in Shows : sh[2].identifier \in ShowIds}, timeout \in CallerTimeouts :
        /\ Enter("actors_from_show", [show |-> show, timeout |-> timeout],
                 actors_path(show[2].identifier), DEFAULT_TIMEOUT)
        /\ get_begin(actors_path(show[2].identifier))

\* actors_from_show(show, timeout): actors_from_show_id(show.identifier, timeout=timeout)
actors_from_show ==
    \E show \in {sh \in Shows : sh[2].identifier \in ShowIds}, timeout \in CallerTimeouts :
        /\ Enter("actors_from_show", [show |-> show, timeout |-> timeout],
                 actors_path(show[2].identifier), timeout)
        /\ get_begin(actors_path(show[2].identifier))

\* One iteration of authenticate()'s retry loop and, when the loop ends, the
\* rest of authenticate() and the return to its caller
requests_post ==
    /\ pc = "login"
    /\ \E o \in LoginOutcomes :
        LET step == authenticate_attempt(i, auth_token, o)
        IN  /\ sent' = Append(sent, Exchange(login_request(api_key, user_key, user_name,
                                                           auth_token), o))
            /\ auth_token' = step.auth_token
            /\ IF step.outcome.kind = "running"
               THEN pc' = "login" /\ result' = Running /\ i' = step.i
               ELSE IF step.outcome.kind = "raise" \/ call.op = "authenticate"
               THEN pc' = "idle" /\ result' = step.outcome /\ i' = 0
               ELSE pc' = "get" /\ result' = Running /\ i' = 0
    /\ UNCHANGED <<api_key, user_key, user_name, call, entry_token, prev_login_failed,
                   prev_get_failed>>

\* (variant: a failed GET drops the token)
requests_get_logout ==
    /\ pc = "get"
    /\ \E o \in GetOutcomes(call.op) :
        LET res == finish(call.op, get_result(call.url_path, o))
        IN  /\ sent' = Append(sent, Exchange(get_request(call.url_path, auth_token,
                                                         call.timeout), o))
            /\ result' = res
            /\ auth_token' = IF res.kind = "raise" THEN None ELSE auth_token
    /\ pc' = "idle"
    /\ UNCHANGED <<api_key, user_key, user_name, call, i, entry_token,
                   prev_login_failed, prev_get_failed>>

\* (variant: a GET that timed out is issued again)
requests_get_retry ==
    /\ pc = "get"
    /\ \E o \in GetOutcomes(call.op) :
        /\ sent' = Append(sent, Exchange(get_request(call.url_path, auth_token, call.timeout), o))
        /\ IF o.kind = "Timeout"
           THEN pc' = "get" /\ result' = Running
           ELSE pc' = "idle" /\ result' = finish(call.op, get_result(call.url_path, o))
    /\ UNCHANGED <<api_key, user_key, user_name, auth_token, call, i, entry_token,
                   prev_login_failed, prev_get_failed>>

\* The requests.get of get(), the classification of its response and the rest
\* of the operation that called get()
requests_get ==
    /\ pc = "get"
    /\ \E o \in GetOutcomes(call.op) :
        /\ sent' = Append(sent, Exchange(get_request(call.url_path, auth_token, call.timeout), o))
        /\ result' = finish(call.op, get_result(call.url_path, o))
    /\ pc' = "idle"
    /\ UNCHANGED <<api_key, user_key, user_name, auth_token, call, i, entry_token,
                   prev_login_failed, prev_get_failed>>

Next ==
    \/ authenticate
    \/ get
    \/ search_show
    \/ show_info
    \/ actors_from_show_id
    \/ actors_from_show
    \/ requests_post
    \/ requests_get

Spec == Init /\ [][Next]_vars

(***************************************************************************)
(* __init__(): the construction of a client, on its own.  The keychain     *)
(* (keyper.get_password) answers each lookup with a secret or with None;   *)
(* sent lists the lookups made.                                            *)
(***************************************************************************)
SecretParams == {None, EmptyStr, Str("given")}

KeychainValues == {None, EmptyStr, Str("kept"), Str("kept2")}

\* (variant: the keychain is consulted for every secret)
needs_lookup_always(param) == TRUE

\* if api_key is None / if user_key is None / if user_name is None
needs_lookup(param) == param = None

\* keyper.get_password(label=label), which gave kept
lookup(label, kept) ==
    [request |-> [method |-> "get_password", label |-> label], outcome |-> kept]

\* One secret of __init__: the explicit parameter, or the keychain's answer
resolve(param, label, kept, lookups) ==
    IF needs_lookup(param)
    THEN [secret |-> kept, lookups |-> Append(lookups, lookup(label, kept))]
    ELSE [secret |-> param, lookups |-> lookups]

InitNew ==
    /\ api_key = None
    /\ user_key = None
    /\ user_name = None
    /\ auth_token = None
    /\ pc = "new"
    /\ call = [op |-> "none", arg |-> None, url_path |-> None, timeout |-> 0]
    /\ i = 0
    /\ sent = <<>>
    /\ result = NoCall
    /\ entry_token = None
    /\ prev_login_failed = FALSE
    /\ prev_get_failed = FALSE

\* TVDBClient(api_key=..., user_key=..., user_name=...)
TVDBClient_init ==
    /\ pc = "new"
    /\ \E p \in [api_key : SecretParams, user_key : SecretParams, user_name : SecretParams],
          kept \in [api_key : KeychainValues, user_key : KeychainValues,
                    user_name : KeychainValues] :
        LET a == resolve(p.api_key, "libtvdb_api_key", kept.api_key, <<>>)
            u == resolve(p.user_key, "libtvdb_user_key", kept.user_key, a.lookups)
            n == resolve(p.user_name, "libtvdb_user_name", kept.user_name, u.lookups)
            failure ==
                IF a.secret = None
                THEN [lookups |-> a.lookups,
                      msg |-> "No API key was supplied or could be found in the keychain"]
                ELSE IF u.secret = None
                THEN [lookups |-> u.lookups,
                      msg |-> "No user key was supplied or could be found in the keychain"]
                ELSE IF n.secret = None
                THEN [lookups |-> n.lookups,
                      msg |-> "No user name was supplied or could be found in the keychain"]
                ELSE [lookups |-> n.lookups, msg |-> ""]
        IN  /\ call' = [op |-> "__init__", arg |-> p, url_path |-> None, timeout |-> 0]
            /\ sent' = failure.lookups
            /\ IF failure.msg # ""
               THEN /\ pc' = "no_client"
                    /\ result' = Raise("Exception", Str(failure.msg))
                    /\ UNCHANGED <<api_key, user_key, user_name>>
               ELSE /\ pc' = "idle"
                    /\ result' = Return(None)
                    /\ api_key' = a.secret
                    /\ user_key' = u.secret
                    /\ user_name' = n.secret
    /\ auth_token' = None
    /\ UNCHANGED <<i, entry_token, prev_login_failed, prev_get_failed>>

NextNew == TVDBClient_init

SpecNew == InitNew /\ [][NextNew]_vars

(***************************************************************************)
(* Properties                                                              *)
(***************************************************************************)
Last(seq) == seq[Len(seq)]

IsPost(x) == x.request.method = "POST"

IsGet(x) == x.request.method = "GET"

NumPosts(exchanges) == Cardinality({k \in 1..Len(exchanges) : IsPost(exchanges[k])})

NumGets(exchanges) == Cardinality({k \in 1..Len(exchanges) : IsGet(exchanges[k])})

SuccessStatus(o) == o.kind = "Response" /\ o.status_code >= 200 /\ o.status_code <= 299

\* the response's body is a JSON object with a non-null field of that name
HasField(o, key) ==
    /\ o.parsed # NoJson
    /\ key \in DOMAIN o.parsed[2]
    /\ o.parsed[2][key] # None

\* a login response with a success status and a token
LoginOk(o) == SuccessStatus(o) /\ HasField(o, "token")

\* the message ends with the response's raw text
Carries(msg, text) ==
    /\ Len(msg[2]) > Len(text[2])
    /\ SubSeq(msg[2], Len(msg[2]) - Len(text[2]) + 1, Len(msg[2])) = text[2]

Finished == pc = "idle" /\ result.kind \in {"return", "raise"}

\* C1: authenticate() is idempotent.  An authenticate() whose login response
\* has a success status and a token stores that token; an authenticate()
\* entered with a token held issues no network call, returns at once and
\* leaves the token as it was.
C1_AuthenticateIdempotent ==
    call.op = "authenticate" =>
        /\ (Finished /\ sent # <<>> /\ LoginOk(Last(sent).outcome)) =>
               /\ auth_token = Last(sent).outcome.parsed[2].token
               /\ result = Return(None)
        /\ entry_token # None =>
               /\ Finished
               /\ sent = <<>>
               /\ auth_token = entry_token
               /\ result = Return(None)

\* a second authenticate(), entered with the token "abc123" held, has returned
C1_Witness ==
    /\ call.op = "authenticate"
    /\ Finished
    /\ entry_token = Str("abc123")
    /\ auth_token = Str("abc123")
    /\ sent = <<>>

\* C2: authentication completes or fails before any data request.  A GET is
\* issued only while the client holds a token, which the GET carries; it is
\* the first request of an operation entered with a token, or follows at once
\* the successful login of the operation; an operation whose login failed
\* issues no GET.
C2_LoginBeforeGet ==
    /\ pc = "get" => auth_token # None
    /\ \A k \in 1..Len(sent) :
           IsGet(sent[k]) =>
               /\ auth_token # None
               /\ "Authorization" \in DOMAIN sent[k].request.headers
               /\ sent[k].request.headers.Authorization = Cat(Str("Bearer "), auth_token)
               /\ IF k = 1 THEN entry_token # None
                  ELSE IsPost(sent[k - 1]) /\ LoginOk(sent[k - 1].outcome)
    /\ (\E k \in 1..Len(sent) :
           /\ IsPost(sent[k])
           /\ sent[k].outcome.kind # "Timeout"
           /\ ~LoginOk(sent[k].outcome)) => NumGets(sent) = 0

\* a get() entered without a token logged in on its second attempt and then
\* issued its GET
C2_Witness ==
    /\ call.op = "get"
    /\ entry_token = None
    /\ Len(sent) = 3
    /\ sent[1].outcome.kind = "Timeout"
    /\ LoginOk(sent[2].outcome)
    /\ IsGet(sent[3])

\* C3: no transition back to Unauthenticated.  Once a token is held no step
\* of any operation clears or replaces it, and no step issues a login POST.
C3_NoWayBack ==
    [][auth_token # None =>
          /\ auth_token' = auth_token
          /\ pc' # "login"
          /\ NumPosts(sent') <= NumPosts(sent)]_vars

\* an operation entered with a token held has failed, the token still held
C3_Witness ==
    /\ entry_token # None
    /\ auth_token = entry_token
    /\ call.op = "actors_from_show"
    /\ Finished
    /\ result.kind = "raise"
    /\ NumGets(sent) = 1

\* C4: a terminal login failure (non-success status, missing token, timeouts
\* exhausted) raises and leaves the token absent, and the operation after it
\* that needs authentication runs the login again from its first attempt,
\* with three attempts to spend.
C4_FailedLoginStartsOver ==
    /\ (sent # <<>> /\ IsPost(Last(sent)) /\ pc # "login") =>
           IF LoginOk(Last(sent).outcome)
           THEN auth_token # None
           ELSE pc = "idle" /\ result.kind = "raise" /\ auth_token = None
    /\ prev_login_failed =>
           /\ entry_token = None
           /\ (result.kind = "running" /\ sent = <<>>) => pc = "login" /\ i = 0
           /\ pc = "login" =>
                  /\ i = Len(sent)
                  /\ i < MAX_AUTH_RETRY_COUNT
                  /\ \A k \in 1..Len(sent) : IsPost(sent[k]) /\ sent[k].outcome.kind = "Timeout"
           /\ NumPosts(sent) <= MAX_AUTH_RETRY_COUNT

\* the operation after a failed login spent all three attempts, the third
\* one logging in
C4_Witness ==
    /\ prev_login_failed
    /\ NumPosts(sent) = MAX_AUTH_RETRY_COUNT
    /\ sent[1].outcome.kind = "Timeout"
    /\ sent[2].outcome.kind = "Timeout"
    /\ LoginOk(sent[3].outcome)
    /\ auth_token # None

\* every login attempt of the finished operation timed out
AllLoginsTimedOut ==
    /\ Finished
    /\ sent # <<>>
    /\ \A k \in 1..Len(sent) : IsPost(sent[k]) /\ sent[k].outcome.kind = "Timeout"

C6_RejectedLogin ==
    (sent # <<>> /\ IsPost(Last(sent)) /\ Last(sent).outcome.kind = "Response") =>
        LET o == Last(sent).outcome
        IN  /\ ~SuccessStatus(o) =>
                   /\ pc = "idle"
                   /\ result = Raise("TVDBAuthenticationException",
                                     Cat(Str("Authentication failed with status code: "),
                                         IntStr(o.status_code)))
                   /\ auth_token = None
            /\ (SuccessStatus(o) /\ o.parsed # NoJson /\ ~HasField(o, "token")) =>
                   /\ pc = "idle"
                   /\ result = Raise("TVDBAuthenticationException",
                                     Str("Failed to get token from login request"))
                   /\ auth_token = None

\* a login answered 300 with a token in its body was rejected
C6_Witness ==
    /\ sent # <<>>
    /\ IsPost(Last(sent))
    /\ Last(sent).outcome.kind = "Response"
    /\ Last(sent).outcome.status_code = 300
    /\ HasField(Last(sent).outcome, "token")
    /\ result.type = "TVDBAuthenticationException"

\* C7: a get() whose GET response has a status in [200, 300) and a JSON body
\* returns exactly the body's data value when that is present and not null,
\* and fails with NotFoundException when the data key is absent or null.
C7_SuccessClassification ==
    (call.op = "get" /\ sent # <<>> /\ IsGet(Last(sent))
        /\ SuccessStatus(Last(sent).outcome) /\ Last(sent).outcome.parsed # NoJson) =>
        LET o == Last(sent).outcome
        IN  /\ Finished
            /\ IF HasField(o, "data")
               THEN result = Return(o.parsed[2].data)
               ELSE /\ result.kind = "raise"
                    /\ result.type = "NotFoundException"

\* a get() answered 299 with a list of two items returned that list
C7_Witness ==
    /\ call.op = "get"
    /\ sent # <<>>
    /\ IsGet(Last(sent))
    /\ Last(sent).outcome.status_code = 299
    /\ HasField(Last(sent).outcome, "data")
    /\ result.kind = "return"
    /\ result.value[1] = "list"
    /\ Len(result.value[2]) = 2

\* C8: a GET response with a status outside [200, 300) always fails the
\* operation: TVDBException carrying the raw text for a body that is not JSON,
\* for a body with no Error field and for any Error other than "Resource not
\* found", NotFoundException for the Error "Resource not found"; it never
\* returns data.
C8_ErrorClassification ==
    (sent # <<>> /\ IsGet(Last(sent)) /\ Last(sent).outcome.kind = "Response"
        /\ ~SuccessStatus(Last(sent).outcome)) =>
        LET o == Last(sent).outcome
        IN  /\ Finished
            /\ result.kind = "raise"
            /\ IF HasField(o, "Error") /\ o.parsed[2].Error = Str("Resource not found")
               THEN result.type = "NotFoundException"
               ELSE result.type = "TVDBException" /\ Carries(result.value, o.text)

\* a GET answered 404 with {"Error": "Resource not found"} failed with
\* NotFoundException
C8_Witness ==
    /\ sent # <<>>
    /\ IsGet(Last(sent))
    /\ Last(sent).outcome.status_code = 404
    /\ HasField(Last(sent).outcome, "Error")
    /\ Last(sent).outcome.parsed[2].Error = Str("Resource not found")
    /\ result.type = "NotFoundException"

\* C9: get() with an empty or absent path raises AttributeError before any
\* network activity: no POST, no GET, and the token is as it was, with or
\* without a token held.
C9_InvalidPath ==
    (call.op = "get" /\ (call.arg = None \/ call.arg = EmptyStr)) =>
        /\ Finished
        /\ result.kind = "raise"
        /\ result.type = "AttributeError"
        /\ sent = <<>>
        /\ auth_token = entry_token

\* get("") was refused on a client that holds a token
C9_Witness ==
    /\ call.op = "get"
    /\ call.arg = EmptyStr
    /\ entry_token # None
    /\ result.type = "AttributeError"

\* C10: search_show("") and search_show(None) return an empty list with no
\* network call: no POST, no GET, and the token is as it was.
C10_BlankSearch ==
    (call.op = "search_show" /\ (call.arg = None \/ call.arg = EmptyStr)) =>
        /\ Finished
        /\ result = Return(List(<<>>))
        /\ sent = <<>>
        /\ auth_token = entry_token

\* search_show("") returned on a client that never logged in
C10_Witness ==
    /\ call.op = "search_show"
    /\ call.arg = EmptyStr
    /\ entry_token = None
    /\ result.kind = "return"

\* the percent-encoding of a name's characters
EncodedChars(chars) == [k \in 1..Len(chars) |-> IF chars[k] = " " THEN "%20" ELSE chars[k]]

\* the operation held a token when it was entered, or its login succeeded
LoggedIn ==
    \/ entry_token # None
    \/ \E k \in 1..Len(sent) : IsPost(sent[k]) /\ LoginOk(sent[k].outcome)

\* C11: search_show of a non-empty name issues one GET, to
\* search/series?name=<the URL-encoded name>: never more than one, and
\* exactly one once it is logged in; when it returns, it returns one Show per
\* element of the response's data array, in the array's order.
C11_SearchShow ==
    (call.op = "search_show" /\ call.arg # None /\ call.arg # EmptyStr) =>
        /\ NumGets(sent) <= 1
        /\ (Finished /\ LoggedIn) => NumGets(sent) = 1
        /\ \A k \in 1..Len(sent) :
               IsGet(sent[k]) =>
                   sent[k].request.url =
                       <<"str", <<"https://api.thetvdb.com", "/", "search/series?name=">>
                                \o EncodedChars(call.arg[2])>>
        /\ (Finished /\ result.kind = "return") =>
               /\ NumGets(sent) = 1
               /\ IsGet(Last(sent))
               /\ LET data == Last(sent).outcome.parsed[2].data
                      shows == result.value
                  IN  /\ data[1] = "list"
                      /\ shows[1] = "list"
                      /\ Len(shows[2]) = Len(data[2])
                      /\ \A k \in 1..Len(data[2]) :
                             /\ shows[2][k][1] = "Show"
                             /\ shows[2][k][2].identifier = data[2][k][2].id

\* search_show("a ") returned the shows 2 and 1, in the order of the response
C11_Witness ==
    /\ call.op = "search_show"
    /\ call.arg = <<"str", <<"a", " ">>>>
    /\ Finished
    /\ result.kind = "return"
    /\ Len(result.value[2]) = 2
    /\ result.value[2][1][2].identifier = PyInt(2)
    /\ result.value[2][2][2].identifier = PyInt(1)

\* C12: the gateway never retries.  An operation issues at most one GET,
\* whatever that GET ends as (a response of any status and body, a timeout, a
\* connection error): the GET is the operation's last request and the
\* operation is over once it has ended.  Only the login POST is repeated.
C12_SingleGet ==
    /\ NumGets(sent) <= 1
    /\ \A k \in 1..Len(sent) :
           IsGet(sent[k]) => k = Len(sent) /\ Finished
    /\ \A j, k \in 1..Len(sent) :
           (j < k /\ sent[j].request.method = sent[k].request.method) => IsPost(sent[j])

\* an operation logged in on its second POST and its only GET timed out
C12_Witness ==
    /\ Len(sent) = 3
    /\ IsPost(sent[1])
    /\ IsPost(sent[2])
    /\ IsGet(sent[3])
    /\ sent[3].outcome.kind = "Timeout"
    /\ Finished
    /\ result.kind = "raise"

\* the failure kinds of the taxonomy: InvalidArgument, AuthenticationError,
\* NotFoundError, GenericApiError
TypedFailures ==
    {"AttributeError", "TVDBAuthenticationException", "NotFoundException", "TVDBException"}

\* every login attempt ended as a response or a timeout and the GET, if any,
\* as a response
OutcomesOfTheClaim ==
    \A k \in 1..Len(sent) :
        \/ sent[k].outcome.kind = "Response"
        \/ IsPost(sent[k]) /\ sent[k].outcome.kind = "Timeout"

\* C13: every error is surfaced as a typed failure.  For every combination of
\* login outcomes and GET outcome (any status, JSON or not, timeouts
\* exhausted), search_show, show_info and actors_from_show_id either return
\* or fail with one of the taxonomy's kinds.
C13_TypedFailuresOnly ==
    (call.op \in {"search_show", "show_info", "actors_from_show_id"}
        /\ Finished /\ OutcomesOfTheClaim) =>
        \/ result.kind = "return"
        \/ result.kind = "raise" /\ result.type \in TypedFailures

\* The running operation is, request for request and in its result, a run of
\* actors_from_show_id(show_identifier, timeout) from the client state it was
\* entered in, against the outcomes the service gave.
RunsAsActorsFromShowId(show_identifier, timeout) ==
    /\ \A k \in 1..Len(sent) :
           sent[k].request =
               IF k = Len(sent) /\ (entry_token # None \/ (k > 1 /\ LoginOk(sent[k - 1].outcome)))
               THEN [method |-> "GET",
                     url |-> <<"str", <<"https://api.thetvdb.com", "/", "series/",
                                        ToString(show_identifier[2]), "/actors">>>>,
                     json |-> None,
                     headers |-> [Accept |-> Str("application/json"),
                                  Authorization |-> Cat(Str("Bearer "), auth_token)],
                     timeout |-> timeout]
               ELSE login_request(api_key, user_key, user_name, None)
    /\ (Finished /\ sent # <<>>) =>
           result =
               IF IsGet(Last(sent))
               THEN finish("actors_from_show_id",
                           get_result(actors_path(show_identifier), Last(sent).outcome))
               ELSE authenticate_attempt(Len(sent) - 1, None, Last(sent).outcome).outcome

\* C14: actors_from_show(show) gives the same result (the same actors or the
\* same failure) and issues the same requests as
\* actors_from_show_id(show.identifier) from the same client state against
\* the same responses: both are the same run of the service's outcomes.
C14_ActorsFromShowDelegates ==
    /\ call.op = "actors_from_show" =>
           RunsAsActorsFromShowId(call.arg.show[2].identifier, call.arg.timeout)
    /\ call.op = "actors_from_show_id" =>
           RunsAsActorsFromShowId(call.arg.show_identifier, call.arg.timeout)

\* actors_from_show(show 1, timeout 5) logged in and returned one actor
C14_Witness ==
    /\ call.op = "actors_from_show"
    /\ call.arg.show[2].identifier = PyInt(1)
    /\ call.arg.timeout = 5
    /\ Len(sent) = 2
    /\ IsGet(sent[2])
    /\ Finished
    /\ result.kind = "return"
    /\ Len(result.value[2]) = 1

\* the lookup of a label among the lookups made, or none
LookupsOf(label) == {k \in 1..Len(sent) : sent[k].request.label = label}

\* One secret of a construction that is over: the keychain is consulted for
\* it at most once, and never when it was passed explicitly; a client that
\* exists holds the explicit parameter, or else what the keychain gave.
SecretResolved(param, label, held) ==
    /\ Cardinality(LookupsOf(label)) <= 1
    /\ param # None => LookupsOf(label) = {}
    /\ pc = "idle" =>
           /\ held # None
           /\ IF param # None THEN held = param
              ELSE \E k \in LookupsOf(label) : held = sent[k].outcome

\* A construction that is over: no client exists exactly when the keychain
\* failed to give a secret, and construction stopped at that lookup.
ConstructionResolved ==
    pc # "new" =>
        /\ SecretResolved(call.arg.api_key, "libtvdb_api_key", api_key)
        /\ SecretResolved(call.arg.user_key, "libtvdb_user_key", user_key)
        /\ SecretResolved(call.arg.user_name, "libtvdb_user_name", user_name)
        /\ pc \in {"idle", "no_client"}
        /\ pc = "no_client" <=> \E k \in 1..Len(sent) : sent[k].outcome = None
        /\ pc = "no_client" =>
               /\ sent[Len(sent)].outcome = None
               /\ result.kind = "raise"
               /\ api_key = None /\ user_key = None /\ user_name = None
        /\ \A k \in 1..Len(sent) : k < Len(sent) => sent[k].outcome # None

\* C15, as claimed: every client that construction produces holds three
\* non-empty secrets, each the explicit parameter or, when that is absent,
\* what the credential source gave; construction fails when a secret cannot
\* be resolved, and the source is never consulted for an explicit secret.
C15_NonEmptySecrets ==
    /\ ConstructionResolved
    /\ pc = "idle" =>
           /\ api_key \notin {None, EmptyStr}
           /\ user_key \notin {None, EmptyStr}
           /\ user_name \notin {None, EmptyStr}

\* C15, amended: every client that construction produces holds three secrets
\* that are not None (an empty string, passed explicitly or given by the
\* credential source, is accepted), each the explicit parameter or, when that
\* is None, what the credential source gave; construction fails when a
\* secret cannot be resolved, and the source is never consulted for an
\* explicit secret.
C15_SecretsNotNone ==
    /\ ConstructionResolved
    /\ pc = "idle" => api_key # None /\ user_key # None /\ user_name # None

\* a client was built with its API key from the keychain, an explicit empty
\* user key and an explicit user name
C15_Witness ==
    /\ pc = "idle"
    /\ call.op = "__init__"
    /\ call.arg = [api_key |-> None, user_key |-> EmptyStr, user_name |-> Str("given")]
    /\ api_key = Str("kept")
    /\ user_key = EmptyStr
    /\ Len(sent) = 1

\* C16: every request carries Accept: application/json; every GET carries
\* Authorization: Bearer <the token the client holds>; a login POST is sent
\* only while the client holds no token and carries no Authorization header.
C16_Headers ==
    /\ \A k \in 1..Len(sent) :
           LET headers == sent[k].request.headers
           IN  /\ "Accept" \in DOMAIN headers
               /\ headers.Accept = <<"str", <<"application/json">>>>
               /\ IsGet(sent[k]) =>
                      /\ auth_token # None
                      /\ DOMAIN headers = {"Accept", "Authorization"}
                      /\ headers.Authorization = <<"str", <<"Bearer ">> \o auth_token[2]>>
               /\ IsPost(sent[k]) =>
                      /\ DOMAIN headers = {"Accept"}
                      /\ entry_token = None
    /\ pc = "login" => auth_token = None

\* a login with the token "xyz789" was followed by a GET carrying it
C16_Witness ==
    /\ Len(sent) = 2
    /\ IsPost(sent[1])
    /\ IsGet(sent[2])
    /\ auth_token = Str("xyz789")
    /\ sent[2].request.headers.Authorization = <<"str", <<"Bearer ", "xyz789">>>>

\* C17: the login is retried only on a timeout.  Attempt k+1 is made only
\* when attempts 1..k all timed out and k < 3; the loop stops at the first
\* attempt that ends otherwise, whatever the response's status, so a rejected
\* login is never retried; no operation makes more than 3 login POSTs.
C17_RetryOnlyOnTimeout ==
    /\ NumPosts(sent) <= 3
    /\ \A k \in 1..Len(sent) :
           IsPost(sent[k]) =>
               /\ k <= 3
               /\ \A j \in 1..(k - 1) : IsPost(sent[j]) /\ sent[j].outcome.kind = "Timeout"
    /\ pc = "login" =>
           /\ Len(sent) < 3
           /\ \A k \in 1..Len(sent) : sent[k].outcome.kind = "Timeout"

\* a login timed out once and was then rejected with 404: the operation ended
\* on its second POST
C17_Witness ==
    /\ Len(sent) = 2
    /\ sent[1].outcome.kind = "Timeout"
    /\ IsPost(sent[2])
    /\ sent[2].outcome.kind = "Response"
    /\ sent[2].outcome.status_code = 404
    /\ Finished
    /\ result.type = "TVDBAuthenticationException"

\* the item has every field an Actor requires
Convertible(item) == {"id", "name"} \subseteq DOMAIN item[2]

\* C18: actors_from_show_id is all-or-nothing.  When the strict conversion of
\* one element of the data array fails, the call fails and returns no list;
\* when every element converts, it returns one Actor per element, in the
\* array's order.
C18_ActorsAllOrNothing ==
    (call.op = "actors_from_show_id" /\ Finished /\ sent # <<>> /\ IsGet(Last(sent))
        /\ SuccessStatus(Last(sent).outcome) /\ HasField(Last(sent).outcome, "data")) =>
        LET data == Last(sent).outcome.parsed[2].data[2]
        IN  IF \E k \in 1..Len(data) : ~Convertible(data[k])
            THEN result.kind = "raise"
            ELSE /\ result.kind = "return"
                 /\ result.value[1] = "list"
                 /\ Len(result.value[2]) = Len(data)
                 /\ \A k \in 1..Len(data) :
                        /\ result.value[2][k][1] = "Actor"
                        /\ result.value[2][k][2].identifier = data[k][2].id
                        /\ result.value[2][k][2].name = data[k][2].name

\* the data array held a convertible item and then one without a name: the
\* call failed
C18_Witness ==
    /\ call.op = "actors_from_show_id"
    /\ Finished
    /\ sent # <<>>
    /\ IsGet(Last(sent))
    /\ Last(sent).outcome.status_code = 200
    /\ HasField(Last(sent).outcome, "data")
    /\ Len(Last(sent).outcome.parsed[2].data[2]) = 2
    /\ Convertible(Last(sent).outcome.parsed[2].data[2][1])
    /\ ~Convertible(Last(sent).outcome.parsed[2].data[2][2])
    /\ result.kind = "raise"

\* C19: the statements after the retry loop run only with a response bound,
\* that of the last attempt made.  The loop never falls through with no
\* response: after 3 timeouts the operation fails inside the loop.  A token
\* is stored, or the login rejected, only on the last attempt's response, and
\* the token stored is that response's token.
C19_ResponseBound ==
    /\ result.type # "UnboundLocalError"
    /\ (NumPosts(sent) > 0 /\ pc # "login") =>
           LET last == sent[NumPosts(sent)]
           IN  /\ IsPost(last)
               /\ last.outcome.kind = "Timeout" =>
                      /\ NumPosts(sent) = 3
                      /\ Finished
                      /\ result.type = "Exception"
                      /\ auth_token = None
               /\ auth_token # None =>
                      /\ LoginOk(last.outcome)
                      /\ auth_token = last.outcome.parsed[2].token
               /\ (Finished /\ result.type = "TVDBAuthenticationException") =>
                      /\ last.outcome.kind = "Response"
                      /\ ~LoginOk(last.outcome)
                      /\ ~SuccessStatus(last.outcome) =>
                             result.value = <<"str", <<"Authentication failed with status code: ",
                                                       ToString(last.outcome.status_code)>>>>

\* two attempts timed out and the third was answered with the token "xyz789",
\* which is the token stored
C19_Witness ==
    /\ NumPosts(sent) = 3
    /\ sent[1].outcome.kind = "Timeout"
    /\ sent[2].outcome.kind = "Timeout"
    /\ LoginOk(sent[3].outcome)
    /\ sent[3].outcome.parsed[2].token = Str("xyz789")
    /\ auth_token = Str("xyz789")

\* C20: a failure of the data GET leaves the authentication state alone.  An
\* operation that failed at or after its GET (NotFound, a generic API error,
\* a body that is not JSON, a timeout) leaves the client holding the token
\* the GET carried, and the operation after it issues no login POST: its
\* first request is its GET, with that token.
C20_GetFailureKeepsToken ==
    /\ (Finished /\ result.kind = "raise" /\ sent # <<>> /\ IsGet(Last(sent))) =>
           /\ auth_token # None
           /\ Last(sent).request.headers.Authorization = <<"str", <<"Bearer ">> \o auth_token[2]>>
    /\ prev_get_failed =>
           /\ entry_token # None
           /\ auth_token = entry_token
           /\ pc # "login"
           /\ NumPosts(sent) = 0
           /\ sent # <<>> =>
                  /\ IsGet(sent[1])
                  /\ sent[1].request.headers.Authorization =
                         <<"str", <<"Bearer ">> \o entry_token[2]>>

\* the operation after a failed GET has issued its GET at once, with the
\* token "abc123" still held
C20_Witness ==
    /\ prev_get_failed
    /\ entry_token = Str("abc123")
    /\ auth_token = Str("abc123")
    /\ Len(sent) = 1
    /\ IsGet(sent[1])
    /\ Finished

====
